---- MODULE Spec2Model ----
(***************************************************************************)
(* Model of the construction-site monitoring core:                         *)
(*   - SafetyGearDetector.detect  (src/app/utils/detection.py)             *)
(*   - ProximityDetector.detect   (src/app/utils/detection.py)             *)
(*   - IPCamera / CameraManager   (src/app/utils/camera.py)                *)
(*                                                                         *)
(* Time is counted in whole seconds: clock is what time.time() returns,    *)
(* it advances by Tick and is read once per detect call.  The pixel        *)
(* analysis of OpenCV is the input of every call: a frame is the list of   *)
(* boxes HOG returns, each with its weight (in tenths) and the colour      *)
(* ratios (in percent) of its region.                                      *)
(***************************************************************************)
EXTENDS Integers, Sequences, FiniteSets, TLC

\* ------------------------------------------------------------------ bounds
MaxGearClock == 5
MaxHist == 1
MaxProxClock == 11
MaxProxHist == 2
MaxOrderClock == 5
MaxHeld == 2
MaxSources == 2
MaxPipeClock == 5

Cameras == {1, 2}
None == <<"None">>

\* ------------------------------------------------- program constants (gear)
alert_threshold == 3
ConfidenceThreshold == 5
BrightRatioMin == 10
VestRatioMin == 5

\* -------------------------------------------- program constants (proximity)
proximity_threshold == 80
alert_cooldown == 5
MinMachineArea == 2000

VARIABLES
    clock,               \* time.time(), in seconds
    call,                \* the detect call that has just returned: inputs, clock reading, result
    hog,                 \* SafetyGearDetector.hog: TRUE when load_model succeeded
    violation_time,      \* SafetyGearDetector.violation_time[camera] : worker id -> start
    sg_history,          \* SafetyGearDetector.violation_history
    reset_early,         \* history variable: the worker ids whose window compliance has
                         \* deleted before it was alert_threshold old
    machinery_positions, \* ProximityDetector.machinery_positions[camera]
    alert_history,       \* ProximityDetector.alert_history[camera] : key -> last alert time
    px_history,          \* ProximityDetector.violation_history
    twin_alert_history,  \* alert_history of a second ProximityDetector given the same calls
    twin_result,         \* what that second detector returned for the last call
    src,                 \* the IPCamera objects: fields, lock owner, position of both loops
    heap,                \* the image arrays: array -> what is drawn in it
    held,                \* the arrays get_frame has returned and a caller still holds
    cameras,             \* CameraManager.cameras : camera id -> IPCamera object
    mgr,                 \* per calling thread: its position inside add_camera or
                         \* remove_camera, and what its last call returned
    pipe,                \* per video_feed request: the position of its generate_frames
                         \* generator and the locals of that generator
    alerts,              \* routes.alerts: the two lists of what the detectors returned
    emitted,             \* the messages socketio.emit has sent
    db                   \* the rows of the violations table

gearVars == <<hog, violation_time, sg_history, reset_early>>
proxVars == <<machinery_positions, alert_history, px_history>>
twinVars == <<twin_alert_history, twin_result>>
camVars == <<src, heap, held, cameras, mgr>>
pipeVars == <<pipe, alerts, emitted, db>>
detVars == <<clock, call, gearVars, proxVars, twinVars>>
vars == <<clock, call, gearVars, proxVars, twinVars, camVars, pipeVars>>


\* ---------------------------------------------------------------- helpers
RECURSIVE Pow10(_)
Pow10(n) == IF n = 0 THEN 1 ELSE 10 * Pow10(n - 1)

\* Python's round(num/den, ndigits) for num >= 0, as an integer count of
\* 10^-ndigits units: nearest, ties to even.
PyRound(num, den, ndigits) ==
    LET n == num * Pow10(ndigits)
        q == n \div den
        r == n % den
    IN  IF 2 * r < den THEN q
        ELSE IF 2 * r > den THEN q + 1
        ELSE IF q % 2 = 0 THEN q ELSE q + 1

\* a dict is a function whose DOMAIN is its key set
EmptyDict == [k \in {} |-> 0]
DictSet(d, k, v) == [x \in (DOMAIN d) \cup {k} |-> IF x = k THEN v ELSE d[x]]
DictDelAll(d, k) == [x \in {} |-> 0]
DictDel(d, k) == [x \in (DOMAIN d) \ {k} |-> d[x]]

\* ------------------------------------------------------------ vision input
\* the region of one HOG box: its pixel count (0: an empty crop) and the
\* percentage of bright head pixels and of high-visibility torso pixels
Rois == {[size |-> 0, bright |-> 0, vest |-> 0],
         [size |-> 1, bright |-> 10, vest |-> 5],
         [size |-> 1, bright |-> 9, vest |-> 4]}
Boxes == {[weight |-> 5, roi |-> [size |-> 1, bright |-> 9, vest |-> 4]]}
         \cup [weight : {6}, roi : Rois]
\* the frames: no box, any one box, or two boxes with a non-empty region
PairBoxes == {b \in Boxes : b.roi.size > 0}
Frames == {<<>>} \cup {<<b>> : b \in Boxes} \cup {<<a, b>> : a, b \in PairBoxes}

\* valid_boxes: the boxes whose weight is above the confidence threshold,
\* in HOG's order; a worker's index is its position in this list
ValidBoxes(boxes) == SelectSeq(boxes, LAMBDA b : b.weight > ConfidenceThreshold)

_analyze_safety_gear(roi) ==
    IF roi.size = 0 THEN <<>>
    ELSE (IF roi.bright < BrightRatioMin THEN <<"helmet">> ELSE <<>>)
         \o (IF roi.vest < VestRatioMin THEN <<"vest">> ELSE <<>>)

WorkerId(camera_id, i) == <<"worker", camera_id, i>>

\* _capture_violation_screenshot: the path, or None when imwrite raised
ScreenshotPath(ok, violation_type, camera_id, worker_id) ==
    IF ok THEN <<violation_type, camera_id, worker_id>> ELSE None

\* --------------------------------------------------- SafetyGearDetector
PastThresholdStrict(violation_duration) ==
    violation_duration > alert_threshold

PastThresholdAny(violation_duration) ==
    violation_duration >= 0

\* the >= test of line 98
PastThreshold(violation_duration) ==
    violation_duration >= alert_threshold

\* line 93-94: open the window on the first non-compliant frame
TrackViolation(vt, worker_id, current_time) ==
    IF worker_id \notin DOMAIN vt THEN DictSet(vt, worker_id, current_time) ELSE vt

ResetViolationKeeps(vt, worker_id) == vt

\* line 121-122: compliance deletes the window
ResetViolation(vt, worker_id) ==
    IF worker_id \in DOMAIN vt THEN DictDel(vt, worker_id) ELSE vt

GearRecord(worker_id, missing_gear, violation_duration, shot, current_time, camera_id) ==
    [worker_id |-> worker_id,
     missing_gear |-> missing_gear,
     duration |-> PyRound(violation_duration, 1, 1),
     screenshot |-> shot,
     timestamp |-> current_time,
     camera_id |-> camera_id]

GearStepDropsUnshot(st, i, missing_gear, camera_id, current_time, shotOk) ==
    LET worker_id == WorkerId(camera_id, i - 1) IN
    IF missing_gear # <<>>
    THEN LET vt1 == TrackViolation(st.vt, worker_id, current_time)
             violation_duration == current_time - vt1[worker_id]
         IN  IF PastThreshold(violation_duration) /\ shotOk
             THEN LET rec == GearRecord(worker_id, missing_gear, violation_duration,
                                 ScreenshotPath(shotOk, "safety_gear", camera_id, worker_id),
                                 current_time, camera_id)
                  IN  [vt |-> vt1,
                       violations |-> Append(st.violations, rec),
                       history |-> Append(st.history, rec)]
             ELSE [st EXCEPT !.vt = vt1]
    ELSE [st EXCEPT !.vt = ResetViolation(st.vt, worker_id)]

\* one iteration of the loop of lines 77-132 for valid box i (1-based here,
\* worker index i-1 in the code); st = [vt, violations, history]
GearStep(st, i, missing_gear, camera_id, current_time, shotOk) ==
    LET worker_id == WorkerId(camera_id, i - 1) IN
    IF missing_gear # <<>>
    THEN LET vt1 == TrackViolation(st.vt, worker_id, current_time)
             violation_duration == current_time - vt1[worker_id]
         IN  IF PastThreshold(violation_duration)
             THEN LET rec == GearRecord(worker_id, missing_gear, violation_duration,
                                 ScreenshotPath(shotOk, "safety_gear", camera_id, worker_id),
                                 current_time, camera_id)
                  IN  [vt |-> vt1,
                       violations |-> Append(st.violations, rec),
                       history |-> Append(st.history, rec)]
             ELSE [st EXCEPT !.vt = vt1]
    ELSE [st EXCEPT !.vt = ResetViolation(st.vt, worker_id)]

RECURSIVE GearLoop(_, _, _, _, _, _)
GearLoop(st, i, missing, camera_id, current_time, shots) ==
    IF i > Len(missing) THEN st
    ELSE GearLoop(GearStep(st, i, missing[i], camera_id, current_time, shots[i]),
                  i + 1, missing, camera_id, current_time, shots)

SafetyDetectOnShared(vt_all, history, camera_id, boxes, shots) ==
    LET valid == ValidBoxes(boxes)
        missing == [i \in 1..Len(valid) |-> _analyze_safety_gear(valid[i].roi)]
        st0 == [vt |-> [w \in {WorkerId(camera_id, x[3]) :
                                  x \in UNION {DOMAIN vt_all[c] : c \in Cameras}} |->
                            LET c == CHOOSE c \in Cameras :
                                         WorkerId(c, w[3]) \in DOMAIN vt_all[c]
                            IN  vt_all[c][WorkerId(c, w[3])]],
                violations |-> <<>>, history |-> history]
    IN  IF hog
        THEN GearLoop(st0, 1, missing, camera_id, clock, shots)
        ELSE st0

\* SafetyGearDetector.detect(frame, camera_id) of a detector whose
\* violation_time is vt_all and whose violation_history is history: the new
\* violation_time of the camera, the new history and the violations returned
SafetyDetectOn(vt_all, history, camera_id, boxes, shots) ==
    LET valid == ValidBoxes(boxes)
        missing == [i \in 1..Len(valid) |-> _analyze_safety_gear(valid[i].roi)]
        st0 == [vt |-> vt_all[camera_id], violations |-> <<>>, history |-> history]
    IN  IF hog
        THEN GearLoop(st0, 1, missing, camera_id, clock, shots)
        ELSE st0

\* the call on the detector of routes.py
SafetyDetect(camera_id, boxes, shots) ==
    SafetyDetectOn(violation_time, sg_history, camera_id, boxes, shots)

\* the valid boxes of a frame whose record is emitted, whatever the screenshots do
GearEmitters(camera_id, boxes) ==
    LET st == SafetyDetect(camera_id, boxes, [i \in 1..Len(boxes) |-> TRUE])
    IN  {st.violations[k].worker_id[3] + 1 : k \in 1..Len(st.violations)}

\* the windows a call deletes while they are younger than alert_threshold
EarlyResets(camera_id, vt_after) ==
    {w \in DOMAIN violation_time[camera_id] \ DOMAIN vt_after :
        clock - violation_time[camera_id][w] < alert_threshold}

NoCall == [op |-> "none"]

SafetyGearCall(camera_id, boxes, shots) ==
    LET st == SafetyDetect(camera_id, boxes, shots)
        valid == ValidBoxes(boxes)
    IN  /\ Len(st.history) <= MaxHist
        /\ violation_time' = [violation_time EXCEPT ![camera_id] = st.vt]
        /\ sg_history' = st.history
        /\ call' = [op |-> "safety", camera_id |-> camera_id, current_time |-> clock,
                    missing |-> IF hog
                                THEN [i \in 1..Len(valid) |-> _analyze_safety_gear(valid[i].roi)]
                                ELSE <<>>,
                    result |-> st.violations]
        /\ reset_early' = reset_early \cup EarlyResets(camera_id, st.vt)
        /\ UNCHANGED <<clock, hog, proxVars, twinVars, camVars>>

\* one detect call on a frame; the screenshots of the call are all written,
\* or all fail
SafetyGearDetectIn(cams, frames) ==
    \E camera_id \in cams, boxes \in frames :
        \E fail \in {{}, GearEmitters(camera_id, boxes)} :
            /\ SafetyGearCall(camera_id, boxes, [i \in 1..Len(boxes) |-> i \notin fail])
            /\ UNCHANGED pipeVars

SafetyGearDetect(cams) == SafetyGearDetectIn(cams, Frames)

\* time passes between two readings of time.time()
Tick(max) ==
    /\ clock < max
    /\ clock' = clock + 1
    /\ call' = NoCall

\* routes.clear_all_violations: the table and both histories are emptied
ClearAllViolations ==
    /\ db' = <<>>
    /\ sg_history' = <<>>
    /\ px_history' = <<>>
    /\ call' = NoCall
    /\ UNCHANGED <<clock, hog, violation_time, reset_early,
                   machinery_positions, alert_history, twinVars, camVars,
                   pipe, alerts, emitted>>

\* ---------------------------------------------------- ProximityDetector
\* person boxes (x, y, w, h) and machinery contours (bounding rectangle, area).
\* Centres: P (100,100), R (300,100), A (130,140), B (148,164), D (318,164);
\* P-A is 50, P-B is 80, R-D is 66.48, every other pair is farther than 80.
BoxP == [x |-> 90, y |-> 80, w |-> 20, h |-> 40]
BoxR == [x |-> 290, y |-> 80, w |-> 20, h |-> 40]
ContourA == [area |-> 3000, x |-> 100, y |-> 110, w |-> 60, h |-> 60]
ContourB == [area |-> 3000, x |-> 118, y |-> 134, w |-> 60, h |-> 60]
ContourD == [area |-> 3000, x |-> 288, y |-> 134, w |-> 60, h |-> 60]
ContourSmall == [area |-> 2000, x |-> 100, y |-> 110, w |-> 50, h |-> 40]
ContourWide == [area |-> 3000, x |-> 100, y |-> 110, w |-> 90, h |-> 30]

\* a person box as HOG returns it, with its weight
Weighted(b, weight) == [weight |-> weight, x |-> b.x, y |-> b.y, w |-> b.w, h |-> b.h]

SeqsUpTo(S, n) == UNION {[1..k -> S] : k \in 0..n}

Center(b) == <<b.x + b.w \div 2, b.y + b.h \div 2>>

SqDistance(p, q) == (p[1] - q[1]) * (p[1] - q[1]) + (p[2] - q[2]) * (p[2] - q[2])

\* the integer part of the square root of n, found between lo and hi
RECURSIVE ISqrt(_, _, _)
ISqrt(n, lo, hi) ==
    IF lo >= hi THEN lo
    ELSE LET mid == (lo + hi + 1) \div 2
         IN  IF mid * mid <= n THEN ISqrt(n, mid, hi) ELSE ISqrt(n, lo, mid - 1)

\* round(np.sqrt(sq), 2), in hundredths, of a distance below the threshold
RoundedDistance(sq) ==
    LET m == 10000 * sq
        r == ISqrt(m, 0, 100 * proximity_threshold)
    IN  IF m - r * r > r THEN r + 1 ELSE r

IsCloseOrAt(sq) == sq <= proximity_threshold * proximity_threshold

\* line 251: np.sqrt(sq) < proximity_threshold
IsClose(sq) == sq < proximity_threshold * proximity_threshold

\* _detect_machinery: the rectangles of the contours that are large enough
\* and neither too tall nor too wide, in contour order
IsMachine(ct) ==
    /\ ct.area > MinMachineArea
    /\ ct.h < 2 * ct.w
    /\ ct.w < 3 * ct.h

_detect_machinery(contours) ==
    LET kept == SelectSeq(contours, IsMachine)
    IN  [k \in 1..Len(kept) |-> [x |-> kept[k].x, y |-> kept[k].y,
                                 w |-> kept[k].w, h |-> kept[k].h]]

AlertKey(worker_id, j) == <<worker_id, "machine", j>>
MachineId(camera_id, j) == <<"machine", camera_id, j>>

CooldownElapsedAlways(current_time, last_alert) == TRUE

CooldownElapsedStrict(current_time, last_alert) ==
    current_time - last_alert > alert_cooldown

\* line 256
CooldownElapsed(current_time, last_alert) ==
    current_time - last_alert >= alert_cooldown

\* line 254: self.alert_history[camera_id].get(key, 0)
LastAlert(ah, key) == IF key \in DOMAIN ah THEN ah[key] ELSE 0

\* line 285
RecordAlert(ah, key, current_time) == DictSet(ah, key, current_time)

AlertRecord(worker_id, camera_id, j, sq, shot, current_time) ==
    [worker_id |-> worker_id,
     machine_id |-> MachineId(camera_id, j),
     distance |-> RoundedDistance(sq),
     screenshot |-> shot,
     timestamp |-> current_time,
     camera_id |-> camera_id]

\* lines 243-285 for worker i and machine j (both 1-based here);
\* st = [ah, alerts, history]
ProxStep(st, i, j, worker, machine, camera_id, current_time, shotOk) ==
    LET worker_id == WorkerId(camera_id, i - 1)
        sq == SqDistance(Center(worker), Center(machine))
        key == AlertKey(worker_id, j - 1)
    IN  IF IsClose(sq) /\ CooldownElapsed(current_time, LastAlert(st.ah, key))
        THEN LET rec == AlertRecord(worker_id, camera_id, j - 1, sq,
                            ScreenshotPath(shotOk, "proximity", camera_id, worker_id),
                            current_time)
             IN  [ah |-> RecordAlert(st.ah, key, current_time),
                  alerts |-> Append(st.alerts, rec),
                  history |-> Append(st.history, rec)]
        ELSE st

\* the pairs of a frame in the order of the loops of lines 233 and 243
PairOrderMachineFirst(nWorkers, nMachines) ==
    [k \in 1..(nWorkers * nMachines) |->
        <<((k - 1) % nWorkers) + 1, ((k - 1) \div nWorkers) + 1>>]

PairOrder(nWorkers, nMachines) ==
    [k \in 1..(nWorkers * nMachines) |->
        <<((k - 1) \div nMachines) + 1, ((k - 1) % nMachines) + 1>>]

RECURSIVE ProxLoop(_, _, _, _, _, _, _, _)
ProxLoop(st, k, pairs, valid, machinery, camera_id, current_time, shots) ==
    IF k > Len(pairs) THEN st
    ELSE LET i == pairs[k][1]
             j == pairs[k][2]
         IN  ProxLoop(ProxStep(st, i, j, valid[i], machinery[j], camera_id,
                               current_time, shots[<<i, j>>]),
                      k + 1, pairs, valid, machinery, camera_id, current_time, shots)

\* ProximityDetector.detect(frame, camera_id): the new alert_history of the
\* camera, the new history and the alerts returned
ProximityDetectResult(ah, history, camera_id, boxes, contours, shots) ==
    LET machinery == _detect_machinery(contours)
        valid == ValidBoxes(boxes)
        st0 == [ah |-> ah[camera_id], alerts |-> <<>>, history |-> history]
    IN  ProxLoop(st0, 1, PairOrder(Len(valid), Len(machinery)), valid, machinery,
                 camera_id, clock, shots)

AllPairs == (1..2) \X (1..2)

\* the pairs of a frame whose centres are closer than proximity_threshold
ClosePairs(boxes, contours) ==
    LET machinery == _detect_machinery(contours)
        valid == ValidBoxes(boxes)
    IN  {p \in (1..Len(valid)) \X (1..Len(machinery)) :
            IsClose(SqDistance(Center(valid[p[1]]), Center(machinery[p[2]])))}

ProximityCall(camera_id, boxes, contours, shots) ==
    LET st == ProximityDetectResult(alert_history, px_history, camera_id, boxes,
                                    contours, shots)
    IN  /\ Len(st.history) <= MaxProxHist
        /\ machinery_positions' = DictSet(machinery_positions, camera_id,
                                          _detect_machinery(contours))
        /\ alert_history' = [alert_history EXCEPT ![camera_id] = st.ah]
        /\ px_history' = st.history
        /\ call' = [op |-> "proximity", camera_id |-> camera_id, current_time |-> clock,
                    close |-> ClosePairs(boxes, contours), result |-> st.alerts]
        /\ UNCHANGED <<clock, gearVars, camVars>>

ShotsFailing(fail) == [p \in AllPairs |-> p \notin fail]

\* the pairs of a frame whose alert is returned, whatever the screenshots do
ProxEmitters(ah, camera_id, boxes, contours) ==
    LET st == ProximityDetectResult(ah, <<>>, camera_id, boxes, contours, ShotsFailing({}))
    IN  {<<st.alerts[k].worker_id[3] + 1, st.alerts[k].machine_id[3] + 1>> :
            k \in 1..Len(st.alerts)}

ProximityDetect(cams, frames, contourLists) ==
    \E camera_id \in cams, boxes \in frames, contours \in contourLists :
        \E fail \in SUBSET ProxEmitters(alert_history, camera_id, boxes, contours) :
            /\ ProximityCall(camera_id, boxes, contours, ShotsFailing(fail))
            /\ UNCHANGED <<twinVars, pipeVars>>

\* the same call made on two detectors: same frame, same clock reading, same
\* vision output; only the screenshots may fail differently
ProximityDetectTwice(cams, frames, contourLists) ==
    \E camera_id \in cams, boxes \in frames, contours \in contourLists :
        \E fail \in SUBSET ProxEmitters(alert_history, camera_id, boxes, contours),
           twin_fail \in {{}, AllPairs} :
            LET twin == ProximityDetectResult(twin_alert_history, <<>>, camera_id, boxes,
                                              contours, ShotsFailing(twin_fail))
            IN  /\ ProximityCall(camera_id, boxes, contours, ShotsFailing(fail))
                /\ twin_alert_history' = [twin_alert_history EXCEPT ![camera_id] = twin.ah]
                /\ twin_result' = twin.alerts
                /\ UNCHANGED pipeVars

\* ------------------------------------------------- IPCamera / CameraManager
\* One IPCamera object is a record of src.  An image array is an entry of
\* heap; a field holding an array holds its identity, so that two references
\* to one array can be told from two arrays with the same picture.  The
\* wall-clock stamps last_accessed and fallback_last_time are read only by
\* the 0.5 s throttle of the fallback loop, which is an input of FallbackTick.
Sources == 1..MaxSources
CameraIds == {1, 2}
Callers == {1, 2}
NoFrame == 0
FrameIds == 1..(3 * MaxSources + MaxHeld)

\* IPCamera.__init__ before connect(); built is FALSE until the constructor ran.
\* name is the camera id add_camera builds the object for ("Camera-<id>").
\* released, started_after, frame_loops and fallback_loops are history
\* fields: how release() found the fetch loop, whether a thread has been
\* started after release(), and how many threads have been started on
\* _update_frame and on _update_fallback_frame.
Unbuilt ==
    [built |-> FALSE, name |-> 0, cap |-> "None", last_frame |-> NoFrame, is_running |-> FALSE,
     use_fallback |-> FALSE, fallback_frames |-> <<>>, fallback_index |-> 0,
     lock |-> "free", update_frame |-> "absent", update_fallback |-> "absent",
     released |-> "no", started_after |-> FALSE, frame_loops |-> 0, fallback_loops |-> 0]

\* the arrays something still refers to
LiveFrames(s, hd) ==
    UNION {({s[o].last_frame} \ {NoFrame}) \cup
           {s[o].fallback_frames[i] : i \in 1..Len(s[o].fallback_frames)} : o \in Sources}
    \cup ({hd[k].id : k \in 1..Len(hd)} \ {NoFrame})

\* garbage collection: an array nothing refers to is gone
Sweep(h, s, hd) == [f \in FrameIds |-> IF f \in LiveFrames(s, hd) THEN h[f] ELSE "free"]

\* a newly allocated array.  The identities are handed out by owner (three
\* per IPCamera object: the fallback frame, last_frame and its successor;
\* the rest to the callers of get_frame), the lowest free one first.
FramesOf(o) == (3 * (o - 1) + 1)..(3 * o)
CallerFrames == (3 * MaxSources + 1)..(3 * MaxSources + MaxHeld)
Fresh(pool) == CHOOSE f \in pool : heap[f] = "free" /\ \A g \in pool : heap[g] = "free" => f <= g

_setup_fallbackStaysLive(s, frame) ==
    [s EXCEPT !.is_running = TRUE, !.fallback_frames = <<frame>>,
              !.update_fallback = "test", !.started_after = (s.released # "no"),
              !.fallback_loops = @ + 1]

\* _setup_fallback: the object s switches to the OFFLINE picture (array
\* frame) and starts the loop that publishes it
_setup_fallback(s, frame) ==
    [s EXCEPT !.use_fallback = TRUE, !.is_running = TRUE,
              !.fallback_frames = <<frame>>, !.update_fallback = "test",
              !.started_after = (s.released # "no"), !.fallback_loops = @ + 1]

connectNoFallback(s, opened, frame) ==
    IF opened = "opened"
    THEN [s EXCEPT !.cap = "open", !.is_running = TRUE, !.update_frame = "test",
                   !.frame_loops = @ + 1]
    ELSE [s EXCEPT !.cap = IF opened = "closed" THEN "unopened" ELSE "None"]

connectFallsThrough(s, opened, frame) ==
    IF opened = "error"
    THEN _setup_fallback([s EXCEPT !.cap = "None"], frame)
    ELSE [(IF opened = "opened" THEN [s EXCEPT !.cap = "open"]
           ELSE _setup_fallback([s EXCEPT !.cap = "unopened"], frame))
             EXCEPT !.is_running = TRUE, !.update_frame = "test", !.frame_loops = @ + 1]

\* connect(), as called by the constructor.  opened is what VideoCapture gave:
\* "opened", "closed" (isOpened() is false) or "error" (it raised)
connect(s, opened, frame) ==
    IF opened = "opened"
    THEN [s EXCEPT !.cap = "open", !.is_running = TRUE, !.update_frame = "test",
                   !.frame_loops = @ + 1]
    ELSE _setup_fallback([s EXCEPT !.cap = IF opened = "closed" THEN "unopened" ELSE "None"],
                         frame)

IPCamera(opened, frame) == connect([Unbuilt EXCEPT !.built = TRUE], opened, frame)

\* the heap after the constructor: _setup_fallback has drawn the OFFLINE picture
HeapAfterConnect(h, opened, frame) ==
    IF opened = "opened" THEN h ELSE [h EXCEPT ![frame] = "offline"]

\* ---- _update_frame, the fetch loop
\* line 85: the loop condition
UpdateFrameTest(o) ==
    /\ src[o].update_frame = "test"
    /\ src' = [src EXCEPT ![o].update_frame =
                  IF src[o].is_running /\ ~src[o].use_fallback THEN "enter" ELSE "done"]
    /\ UNCHANGED <<heap, held, cameras, mgr, detVars, pipeVars>>

\* line 87: with self.lock
UpdateFrameEnter(o) ==
    /\ src[o].update_frame = "enter"
    /\ src[o].lock = "free"
    /\ src' = [src EXCEPT ![o].lock = "update_frame", ![o].update_frame = "read"]
    /\ UNCHANGED <<heap, held, cameras, mgr, detVars, pipeVars>>

\* what cap.read() can do: a released capture yields (False, None)
ReadOutcomes(cap) == IF cap = "open" THEN {"frame", "eof", "error"} ELSE {"eof"}

\* lines 88-91 and 102-103: the read, with one of the given outcomes, and
\* the publication of its frame
UpdateFrameReadOf(o, outcomes) ==
    /\ src[o].update_frame = "read"
    /\ \E ret \in outcomes :
        /\ src' = [src EXCEPT
                     ![o].last_frame = IF ret = "frame" THEN Fresh(FramesOf(o)) ELSE @,
                     ![o].lock = IF ret = "eof" THEN @ ELSE "free",
                     ![o].update_frame = CASE ret = "frame" -> "test"
                                           [] ret = "eof" -> "lost"
                                           [] OTHER -> "pause"]
        /\ heap' = Sweep(IF ret = "frame" THEN [heap EXCEPT ![Fresh(FramesOf(o))] = "live"] ELSE heap,
                         src', held)
    /\ UNCHANGED <<held, cameras, mgr, detVars, pipeVars>>

UpdateFrameRead(o) == UpdateFrameReadOf(o, ReadOutcomes(src[o].cap))

\* line 95: the lost capture is released
UpdateFrameLost(o) ==
    /\ src[o].update_frame = "lost"
    /\ src' = [src EXCEPT ![o].cap = "released", ![o].update_frame = "backoff"]
    /\ UNCHANGED <<heap, held, cameras, mgr, detVars, pipeVars>>

\* line 96: time.sleep(1) returns
UpdateFrameBackoff(o) ==
    /\ src[o].update_frame = "backoff"
    /\ src' = [src EXCEPT ![o].update_frame = "reopen"]
    /\ UNCHANGED <<heap, held, cameras, mgr, detVars, pipeVars>>

\* lines 97-100: the reopen; on failure _setup_fallback, which starts the
\* fallback loop while this loop still holds the lock
UpdateFrameReopen(o) ==
    /\ src[o].update_frame = "reopen"
    /\ \E opened \in {"opened", "closed", "error"} :
        /\ src' = [src EXCEPT ![o] =
                     CASE opened = "opened" ->
                              [@ EXCEPT !.cap = "open", !.lock = "free",
                                        !.update_frame = "test"]
                       [] opened = "closed" ->
                              [_setup_fallback([@ EXCEPT !.cap = "unopened"], Fresh(FramesOf(o)))
                                  EXCEPT !.update_frame = "leave"]
                       [] OTHER ->
                              [@ EXCEPT !.lock = "free", !.update_frame = "pause"]]
        /\ heap' = IF opened = "closed" THEN [heap EXCEPT ![Fresh(FramesOf(o))] = "offline"] ELSE heap
    /\ UNCHANGED <<held, cameras, mgr, detVars, pipeVars>>

\* line 101: break leaves the with block and the loop; the thread ends
UpdateFrameBreak(o) ==
    /\ src[o].update_frame = "leave"
    /\ src' = [src EXCEPT ![o].lock = "free", ![o].update_frame = "done"]
    /\ UNCHANGED <<heap, held, cameras, mgr, detVars, pipeVars>>

\* line 104: time.sleep(0.5) returns
UpdateFramePause(o) ==
    /\ src[o].update_frame = "pause"
    /\ src' = [src EXCEPT ![o].update_frame = "test"]
    /\ UNCHANGED <<heap, held, cameras, mgr, detVars, pipeVars>>

\* ---- _update_fallback_frame, the fallback loop
\* line 72: the loop condition
FallbackTest(o) ==
    /\ src[o].update_fallback = "test"
    /\ src' = [src EXCEPT ![o].update_fallback =
                  IF src[o].use_fallback /\ src[o].is_running THEN "tick" ELSE "done"]
    /\ UNCHANGED <<heap, held, cameras, mgr, detVars, pipeVars>>

\* lines 73-81: one round; when 0.5 s have passed (due) a copy of the next
\* fallback frame is published under the lock
FallbackTick(o) ==
    /\ src[o].update_fallback = "tick"
    /\ \E due \in BOOLEAN :
        IF due
        THEN LET fallback_index == (src[o].fallback_index + 1) % Len(src[o].fallback_frames)
             IN  /\ src[o].lock = "free"
                 /\ src' = [src EXCEPT ![o].fallback_index = fallback_index,
                                       ![o].last_frame = Fresh(FramesOf(o)),
                                       ![o].update_fallback = "test"]
                 /\ heap' = Sweep([heap EXCEPT ![Fresh(FramesOf(o))] =
                                      heap[src[o].fallback_frames[fallback_index + 1]]],
                                  src', held)
        ELSE /\ src' = [src EXCEPT ![o].update_fallback = "test"]
             /\ UNCHANGED heap
    /\ UNCHANGED <<held, cameras, mgr, detVars, pipeVars>>

\* ---- get_frame
\* lines 109-115: the array handed to the caller, a new one on both branches
ReturnedFrameAlias(last_frame, fresh) == IF last_frame = NoFrame THEN fresh ELSE last_frame
ReturnedFrameNull(last_frame, fresh) == IF last_frame = NoFrame THEN NoFrame ELSE fresh
ReturnedFrame(last_frame, fresh) == IF last_frame = NoFrame THEN fresh ELSE fresh

\* what is drawn in the array get_frame returns
ReturnedPicture(last_frame) == IF last_frame = NoFrame THEN "noframe" ELSE heap[last_frame]

\* get_frame, by anyone holding a reference to the object.  The entry of
\* held keeps, next to the array, what get_frame returned (kind), whether
\* release() had been called (after_release) and whether the caller has
\* written into the array since (mutated).
get_frame(o) ==
    /\ src[o].built
    /\ src[o].lock = "free"
    /\ Len(held) < MaxHeld
    /\ LET frame == ReturnedFrame(src[o].last_frame, Fresh(CallerFrames))
           kind == IF frame = NoFrame THEN "null" ELSE ReturnedPicture(src[o].last_frame)
       IN  /\ held' = Append(held, [id |-> frame, from |-> o, kind |-> kind,
                                    after_release |-> src[o].released # "no",
                                    mutated |-> FALSE])
           /\ heap' = IF frame = Fresh(CallerFrames) THEN [heap EXCEPT ![frame] = kind] ELSE heap
    /\ UNCHANGED <<src, cameras, mgr, detVars, pipeVars>>

\* the caller draws into a frame it was given, as detect does with its boxes
CallerDraws ==
    \E k \in 1..Len(held) :
        /\ held[k].id # NoFrame
        /\ ~held[k].mutated
        /\ held' = [held EXCEPT ![k].mutated = TRUE]
        /\ heap' = [heap EXCEPT ![held[k].id] = "drawn"]
        /\ UNCHANGED <<src, cameras, mgr, detVars, pipeVars>>

\* the caller lets go of the oldest frame it holds
CallerDrops ==
    /\ held # <<>>
    /\ held' = Tail(held)
    /\ heap' = Sweep(heap, src, held')
    /\ UNCHANGED <<src, cameras, mgr, detVars, pipeVars>>

\* ---- IPCamera.release
\* how release() finds the fetch loop: between the failed read and the
\* result of the reopen, or elsewhere
ReleasePoint(s) ==
    IF s.update_frame \in {"lost", "backoff", "reopen"} THEN "mid_reconnect" ELSE "other"

\* release() has been called on object o before, and has returned
AlreadyReleased(o) ==
    /\ src[o].released # "no"
    /\ \A u \in Callers : ~(mgr[u].pc = "cap" /\ mgr[u].o = o)

releaseToggles(s) ==
    [s EXCEPT !.is_running = ~@, !.cap = IF @ = "None" THEN @ ELSE "released"]

\* lines 119-121: what the two statements of release() assign; releasing a
\* capture that is released already is a no-op of OpenCV
release(s) ==
    [s EXCEPT !.is_running = FALSE, !.cap = IF @ = "None" THEN @ ELSE "released"]

\* ---- CameraManager.add_camera and remove_camera, called by thread t
Idle == [pc |-> "idle", op |-> "none", camera_id |-> 0, o |-> 0, again |-> FALSE,
         ret |-> "none"]

\* the call of thread t returns (ret) or raises (ret = "KeyError")
Return(t, ret) == [mgr EXCEPT ![t].pc = "idle", ![t].o = 0, ![t].again = FALSE, ![t].ret = ret]

\* line 165: if camera_id in self.cameras ... else return False
RemoveCameraCheck(t, camera_id) ==
    /\ mgr[t].pc = "idle"
    /\ mgr' = IF camera_id \in DOMAIN cameras
              THEN [mgr EXCEPT ![t] = [Idle EXCEPT !.pc = "lookup", !.op = "remove_camera",
                                                   !.camera_id = camera_id]]
              ELSE [mgr EXCEPT ![t] = [Idle EXCEPT !.op = "remove_camera",
                                                   !.camera_id = camera_id, !.ret = "False"]]
    /\ UNCHANGED <<src, heap, held, cameras, detVars, pipeVars>>

\* lines 166 and 119: self.cameras[camera_id], which raises KeyError when the
\* id has been deleted meanwhile, and the first statement of release()
RemoveCameraRelease(t) ==
    /\ mgr[t].pc = "lookup"
    /\ IF mgr[t].camera_id \in DOMAIN cameras
       THEN LET o == cameras[mgr[t].camera_id]
            IN  /\ src' = [src EXCEPT ![o].is_running = release(src[o]).is_running,
                                      ![o].released = IF @ = "no" THEN ReleasePoint(src[o])
                                                      ELSE @]
                /\ mgr' = [mgr EXCEPT ![t].pc = "cap", ![t].o = o,
                                      ![t].again = AlreadyReleased(o)]
       ELSE /\ mgr' = Return(t, "KeyError")
            /\ UNCHANGED src
    /\ UNCHANGED <<heap, held, cameras, detVars, pipeVars>>

\* lines 120-121: the capture the object holds now is released
RemoveCameraCap(t) ==
    /\ mgr[t].pc = "cap"
    /\ LET o == mgr[t].o
       IN  src' = [src EXCEPT ![o].cap = release(src[o]).cap]
    /\ mgr' = [mgr EXCEPT ![t].pc = "del"]
    /\ UNCHANGED <<heap, held, cameras, detVars, pipeVars>>

\* lines 167-168: del self.cameras[camera_id], which raises KeyError when the
\* id has been deleted meanwhile; return True
RemoveCameraDel(t) ==
    /\ mgr[t].pc = "del"
    /\ IF mgr[t].camera_id \in DOMAIN cameras
       THEN /\ cameras' = DictDel(cameras, mgr[t].camera_id)
            /\ mgr' = Return(t, "True")
       ELSE /\ mgr' = Return(t, "KeyError")
            /\ UNCHANGED cameras
    /\ UNCHANGED <<src, heap, held, detVars, pipeVars>>

\* the IPCamera objects not built yet
Unused == {o \in Sources : ~src[o].built}

\* line 148: camera = IPCamera(url, name); connect() runs inside the
\* constructor and catches what VideoCapture raises
AddCameraBuild(t, camera_id) ==
    /\ mgr[t].pc = "idle"
    /\ Unused # {}
    /\ LET o == CHOOSE x \in Unused : \A y \in Unused : x <= y
       IN  \E opened \in {"opened", "closed", "error"} :
               /\ src' = [src EXCEPT ![o] = [IPCamera(opened, Fresh(FramesOf(o))) EXCEPT !.name = camera_id]]
               /\ heap' = HeapAfterConnect(heap, opened, Fresh(FramesOf(o)))
               /\ mgr' = [mgr EXCEPT ![t] = [Idle EXCEPT !.pc = "install", !.op = "add_camera",
                                                         !.camera_id = camera_id, !.o = o]]
    /\ UNCHANGED <<held, cameras, detVars, pipeVars>>

\* lines 149-150: self.cameras[camera_id] = camera; return True
AddCameraInstall(t) ==
    /\ mgr[t].pc = "install"
    /\ cameras' = DictSet(cameras, mgr[t].camera_id, mgr[t].o)
    /\ mgr' = Return(t, "True")
    /\ UNCHANGED <<src, heap, held, detVars, pipeVars>>

\* ---------------------------------------------- routes.generate_frames
\* One video_feed request is one generator running generate_frames in a
\* thread of the server.  pipe[r] is the generator of request r: where it
\* stands, the camera it was asked for, the IPCamera object it got, the
\* vision output of the frame it is working on, what the two detectors
\* returned for that frame, how many of the records it has stored, and the
\* call that raised when the generator was ended by an exception.
Requests == {1, 2}

NoRequest ==
    [pc |-> "idle", camera_id |-> 0, o |-> 0, boxes |-> <<>>, contours |-> <<>>,
     safety_violations |-> <<>>, proximity_alerts |-> <<>>, stored |-> 0,
     error |-> "none"]

\* an exception leaves generate_frames: nothing in it catches any
PipeRaised(r, what) ==
    [pipe EXCEPT ![r] = [NoRequest EXCEPT !.pc = "raised", !.camera_id = pipe[r].camera_id,
                                          !.error = what]]

\* dict.get(key, default) on a record of a detector
Get(d, key, default) == IF key \in DOMAIN d THEN d[key] ELSE default

\* ViolationDatabase.add_violation: the row that is inserted
add_violation(violation_data, now) ==
    [timestamp |-> Get(violation_data, "timestamp", now),
     camera_id |-> Get(violation_data, "camera_id", 0),
     violation_type |-> Get(violation_data, "type", "unknown"),
     worker_id |-> Get(violation_data, "worker_id", ""),
     details |-> Get(violation_data, "details", ""),
     duration |-> Get(violation_data, "duration", 0),
     screenshot_path |-> Get(violation_data, "screenshot", ""),
     status |-> Get(violation_data, "status", "ongoing"),
     analysis |-> Get(violation_data, "analysis", "")]

\* routes.video_feed and lines 39-41: the generator starts; without a
\* camera of that id it returns at once
VideoFeed(r, camera_id) ==
    /\ pipe[r].pc = "idle"
    /\ pipe' = [pipe EXCEPT ![r] =
                  IF camera_id \in DOMAIN cameras
                  THEN [NoRequest EXCEPT !.pc = "frame", !.camera_id = camera_id,
                                         !.o = cameras[camera_id]]
                  ELSE [NoRequest EXCEPT !.pc = "returned", !.camera_id = camera_id]]
    /\ UNCHANGED <<alerts, emitted, db, detVars, camVars>>

\* lines 44-46: camera.get_frame(); a None is skipped
PipeGetFrame(r) ==
    /\ pipe[r].pc = "frame"
    /\ src[pipe[r].o].lock = "free"
    /\ pipe' = [pipe EXCEPT ![r].pc =
                  IF ReturnedFrame(src[pipe[r].o].last_frame, Fresh(CallerFrames)) = NoFrame
                  THEN "frame" ELSE "safety"]
    /\ UNCHANGED <<alerts, emitted, db, detVars, camVars>>

\* what the vision calls of the two detectors find in the frames of a feed
PipeGearFrames == {<<>>, <<[weight |-> 6, roi |-> [size |-> 1, bright |-> 9, vest |-> 4]]>>}
PipeProxFrames == {<<>>, <<Weighted(BoxP, 6)>>}
PipeContours == {<<>>, <<ContourA>>}

\* detection.py lines 50-65, inside safety_detector.detect: the vision calls
\* return the boxes of the frame, or one of them raises
PipeSafetyVision(r) ==
    /\ pipe[r].pc = "safety"
    /\ \/ \E boxes \in PipeGearFrames :
            pipe' = [pipe EXCEPT ![r].pc = "safety_track", ![r].boxes = boxes]
       \/ pipe' = PipeRaised(r, "safety_detector.detect")
    /\ UNCHANGED <<alerts, emitted, db, detVars, camVars>>

\* detection.py lines 67-134: the rest of safety_detector.detect, and line 49
PipeSafetyTrack(r) ==
    /\ pipe[r].pc = "safety_track"
    /\ LET camera_id == pipe[r].camera_id
           boxes == pipe[r].boxes
       IN  \E fail \in {{}, GearEmitters(camera_id, boxes)} :
               LET shots == [i \in 1..Len(boxes) |-> i \notin fail]
               IN  /\ SafetyGearCall(camera_id, boxes, shots)
                   /\ pipe' = [pipe EXCEPT
                                 ![r].pc = "proximity", ![r].boxes = <<>>,
                                 ![r].safety_violations =
                                     SafetyDetect(camera_id, boxes, shots).violations]
    /\ UNCHANGED <<alerts, emitted, db>>

\* detection.py lines 212-222, inside proximity_detector.detect: the vision
\* calls return the machinery and the boxes of the frame, or one of them raises
PipeProximityVision(r) ==
    /\ pipe[r].pc = "proximity"
    /\ \/ \E boxes \in PipeProxFrames, contours \in PipeContours :
            pipe' = [pipe EXCEPT ![r].pc = "proximity_track", ![r].boxes = boxes,
                                 ![r].contours = contours]
       \/ pipe' = PipeRaised(r, "proximity_detector.detect")
    /\ UNCHANGED <<alerts, emitted, db, detVars, camVars>>

\* detection.py lines 224-287: the rest of proximity_detector.detect, and line 52
PipeProximityTrack(r) ==
    /\ pipe[r].pc = "proximity_track"
    /\ LET camera_id == pipe[r].camera_id
           boxes == pipe[r].boxes
           contours == pipe[r].contours
       IN  \E fail \in SUBSET ProxEmitters(alert_history, camera_id, boxes, contours) :
               /\ ProximityCall(camera_id, boxes, contours, ShotsFailing(fail))
               /\ pipe' = [pipe EXCEPT
                             ![r].pc = "emit_safety", ![r].boxes = <<>>, ![r].contours = <<>>,
                             ![r].proximity_alerts =
                                 ProximityDetectResult(alert_history, px_history, camera_id,
                                     boxes, contours, ShotsFailing(fail)).alerts]
    /\ UNCHANGED <<alerts, emitted, db, twinVars>>

\* lines 55-64 and 70-79: the records of one detector are appended to
\* routes.alerts and sent; socketio.emit returns or raises
PipeEmit(r, at, kind, event, records, next) ==
    /\ pipe[r].pc = at
    /\ IF records = <<>>
       THEN /\ pipe' = [pipe EXCEPT ![r].pc = next]
            /\ UNCHANGED <<alerts, emitted>>
       ELSE /\ alerts' = [alerts EXCEPT ![kind] =
                            Append(@, [camera_id |-> pipe[r].camera_id, records |-> records,
                                       timestamp |-> clock])]
            /\ \/ /\ emitted' = Append(emitted, [event |-> event,
                                                 camera_id |-> pipe[r].camera_id,
                                                 records |-> records])
                  /\ pipe' = [pipe EXCEPT ![r].pc = "store", ![r].stored = 0]
               \/ /\ pipe' = PipeRaised(r, "socketio.emit")
                  /\ UNCHANGED emitted
    /\ UNCHANGED <<db, detVars, camVars>>

PipeEmitSafety(r) ==
    PipeEmit(r, "emit_safety", "safety_gear", "safety_alert", pipe[r].safety_violations,
             "emit_proximity")

PipeEmitProximity(r) ==
    PipeEmit(r, "emit_proximity", "proximity", "proximity_alert", pipe[r].proximity_alerts,
             "encode")

\* lines 67-68 and 82-83: one db.add_violation of the loop over the records
\* that were sent; it returns or raises.  After the last record of the
\* safety detector come the alerts of the proximity detector.
PipeStore(r) ==
    /\ pipe[r].pc = "store"
    /\ LET safety == pipe[r].safety_violations # <<>>
           records == IF safety THEN pipe[r].safety_violations ELSE pipe[r].proximity_alerts
           last == pipe[r].stored + 1 = Len(records)
       IN  \/ /\ db' = Append(db, add_violation(records[pipe[r].stored + 1], clock))
              /\ pipe' = [pipe EXCEPT
                            ![r].stored = IF last THEN 0 ELSE @ + 1,
                            ![r].safety_violations = IF last THEN <<>> ELSE @,
                            ![r].proximity_alerts = IF last /\ ~safety THEN <<>> ELSE @,
                            ![r].pc = IF ~last THEN "store"
                                      ELSE IF safety THEN "emit_proximity" ELSE "encode"]
           \/ /\ pipe' = PipeRaised(r, "db.add_violation")
              /\ UNCHANGED db
    /\ UNCHANGED <<alerts, emitted, detVars, camVars>>

\* lines 86-88: cv2.imencode; a frame that does not encode is skipped
PipeEncode(r) ==
    /\ pipe[r].pc = "encode"
    /\ \E ret \in BOOLEAN :
        pipe' = [pipe EXCEPT ![r].pc = IF ret THEN "yield" ELSE "frame"]
    /\ UNCHANGED <<alerts, emitted, db, detVars, camVars>>

\* lines 91-92: the generator is suspended at its yield until the server
\* asks for the next part, or closes it because the client has gone
PipeYield(r) ==
    /\ pipe[r].pc = "yield"
    /\ \/ pipe' = [pipe EXCEPT ![r].pc = "frame"]
       \/ pipe' = [pipe EXCEPT ![r] = NoRequest]
    /\ UNCHANGED <<alerts, emitted, db, detVars, camVars>>

PipeStep(r) ==
    \/ PipeGetFrame(r)
    \/ PipeSafetyVision(r)
    \/ PipeSafetyTrack(r)
    \/ PipeProximityVision(r)
    \/ PipeProximityTrack(r)
    \/ PipeEmitSafety(r)
    \/ PipeEmitProximity(r)
    \/ PipeStore(r)
    \/ PipeEncode(r)
    \/ PipeYield(r)

\* ------------------------------------------------ the safety-gear tracker
GearCameras == {1}

\* the state after construction of the module-level objects of routes.py
InitDetectors ==
    /\ clock = 0
    /\ call = NoCall
    /\ violation_time = [c \in Cameras |-> EmptyDict]
    /\ sg_history = <<>>
    /\ reset_early = {}
    /\ machinery_positions = EmptyDict
    /\ alert_history = [c \in Cameras |-> EmptyDict]
    /\ px_history = <<>>
    /\ twin_alert_history = [c \in Cameras |-> EmptyDict]
    /\ twin_result = <<>>
    /\ pipe = [r \in Requests |-> NoRequest]
    /\ alerts = [safety_gear |-> <<>>, proximity |-> <<>>]
    /\ emitted = <<>>
    /\ db = <<>>

\* the detectors alone: no camera object is built
InitNoCameras ==
    /\ src = [o \in Sources |-> Unbuilt]
    /\ heap = [f \in FrameIds |-> "free"]
    /\ held = <<>>
    /\ cameras = EmptyDict
    /\ mgr = [t \in Callers |-> Idle]

Init ==
    /\ InitDetectors
    /\ InitNoCameras
    /\ hog \in BOOLEAN

GearTick == Tick(MaxGearClock) /\ UNCHANGED <<gearVars, proxVars, twinVars, camVars, pipeVars>>

Next ==
    \/ GearTick
    \/ SafetyGearDetect(GearCameras)
    \/ ClearAllViolations

Spec == Init /\ [][Next]_vars

\* -------------------------------------------------- the proximity tracker
ProxCameras == {1}
ProxFrames == SeqsUpTo({Weighted(BoxP, 5), Weighted(BoxP, 6)}, 1)
ProxContours == {<<>>, <<ContourA>>, <<ContourB>>, <<ContourSmall, ContourA>>,
                 <<ContourWide, ContourA>>, <<ContourA, ContourA>>,
                 <<ContourB, ContourA>>}

InitProx ==
    /\ InitDetectors
    /\ InitNoCameras
    /\ hog = TRUE

ProxTick == Tick(MaxProxClock) /\ UNCHANGED <<gearVars, proxVars, twinVars, camVars, pipeVars>>

NextProx ==
    \/ ProxTick
    \/ ProximityDetect(ProxCameras, ProxFrames, ProxContours)
    \/ ClearAllViolations

SpecProx == InitProx /\ [][NextProx]_vars

\* the cooldown key of an alert record
RecordKey(r) == AlertKey(r.worker_id, r.machine_id[3])

\* the alerts for key among those a call returned
AlertsOf(result, key) == {k \in 1..Len(result) : RecordKey(result[k]) = key}

\* the cooldown key of pair p = <<i, j>> (1-based) of a frame of camera c
PairKey(c, p) == AlertKey(WorkerId(c, p[1] - 1), p[2] - 1)

\* C4: for one (camera, worker, machine) key, two alerts are never less than
\* alert_cooldown apart: two alerts of the history for the same key are at
\* least alert_cooldown apart, a call returns at most one alert per key and
\* stamps the key with its clock reading, and a qualifying detection less than
\* alert_cooldown after the key's last alert returns no alert for the key and
\* leaves its last alert time as it is.
C4_CooldownApart ==
    /\ [](/\ \A k1, k2 \in 1..Len(px_history) :
               (k1 < k2 /\ px_history[k1].camera_id = px_history[k2].camera_id
                        /\ RecordKey(px_history[k1]) = RecordKey(px_history[k2]))
               => px_history[k2].timestamp - px_history[k1].timestamp >= alert_cooldown
          /\ call.op = "proximity" =>
               \A k \in 1..Len(call.result) :
                  LET key == RecordKey(call.result[k]) IN
                  /\ Cardinality(AlertsOf(call.result, key)) = 1
                  /\ key \in DOMAIN alert_history[call.camera_id]
                  /\ alert_history[call.camera_id][key] = call.current_time)
    /\ [][call'.op = "proximity" =>
            \A p \in call'.close :
               LET c == call'.camera_id
                   key == PairKey(c, p)
               IN  (/\ key \in DOMAIN alert_history[c]
                    /\ call'.current_time - alert_history[c][key] < alert_cooldown)
                   => /\ AlertsOf(call'.result, key) = {}
                      /\ alert_history'[c][key] = alert_history[c][key]]_vars

\* the history holds two alerts for one key, exactly alert_cooldown apart
C4_Witness ==
    \E k1, k2 \in 1..Len(px_history) :
        /\ k1 < k2
        /\ RecordKey(px_history[k1]) = RecordKey(px_history[k2])
        /\ px_history[k2].timestamp - px_history[k1].timestamp = alert_cooldown

\* C5: a qualifying detection for a key that has no cooldown entry returns an
\* alert for the key, whatever the clock reading is (the scenario's alert at
\* t = 0).
C5_FirstDetectionAlerts ==
    [][call'.op = "proximity" =>
         \A p \in call'.close :
            PairKey(call'.camera_id, p) \notin DOMAIN alert_history[call'.camera_id]
            => AlertsOf(call'.result, PairKey(call'.camera_id, p)) # {}]_vars

\* C6: a qualifying detection for a key whose last alert is at least
\* alert_cooldown old returns exactly one alert for the key and sets the key's
\* last alert time to the call's clock reading.
C6_AlertAfterCooldown ==
    [][call'.op = "proximity" =>
         \A p \in call'.close :
            LET c == call'.camera_id
                key == PairKey(c, p)
            IN  (/\ key \in DOMAIN alert_history[c]
                 /\ call'.current_time - alert_history[c][key] >= alert_cooldown)
                => /\ Cardinality(AlertsOf(call'.result, key)) = 1
                   /\ alert_history'[c][key] = call'.current_time]_vars

\* a call has just returned the second alert of a key, more than
\* alert_cooldown after the first, and the key carries the call's clock reading
C6_Witness ==
    /\ call.op = "proximity"
    /\ Len(px_history) = 2
    /\ \E k \in 1..Len(call.result) :
          LET key == RecordKey(call.result[k]) IN
          /\ RecordKey(px_history[1]) = key
          /\ px_history[2] = call.result[k]
          /\ call.current_time - px_history[1].timestamp > alert_cooldown
          /\ alert_history[call.camera_id][key] = call.current_time

\* the records of worker_id among those a call returned
RecordsOf(result, worker_id) ==
    {k \in 1..Len(result) : result[k].worker_id = worker_id}

\* the call that has just returned is a safety-gear call that ran the detector
GearCallReturned(c) == c.op = "safety" /\ hog

\* C1: every record SafetyGearDetector.detect returns is for a worker whose
\* window is at least alert_threshold old at the call's clock reading, and
\* every record of the history carries a duration of at least alert_threshold
\* (durations are in tenths of a second).
C1_NoEarlyRecord ==
    /\ GearCallReturned(call) =>
          \A k \in 1..Len(call.result) :
              LET r == call.result[k]
                  vt == violation_time[call.camera_id]
              IN  /\ r.worker_id \in DOMAIN vt
                  /\ call.current_time - vt[r.worker_id] >= alert_threshold
                  /\ r.duration >= 10 * alert_threshold
    /\ \A k \in 1..Len(sg_history) : sg_history[k].duration >= 10 * alert_threshold

\* a record is returned for a window that is exactly alert_threshold old
C1_Witness ==
    /\ GearCallReturned(call)
    /\ \E k \in 1..Len(call.result) :
          /\ call.result[k].duration = 10 * alert_threshold
          /\ call.current_time - violation_time[call.camera_id][call.result[k].worker_id]
                = alert_threshold

\* C2: compliance resets the hysteresis timer.  A call in which a worker is
\* compliant leaves no window for that worker; a call in which a worker with
\* no window is non-compliant opens the window at that call's clock reading
\* and returns no record for the worker; and the duration of every record
\* returned is measured from the start of the window the worker has now.
C2_ComplianceResets ==
    [][GearCallReturned(call') =>
         LET c == call'.camera_id
             t == call'.current_time
         IN  \A i \in 1..Len(call'.missing) :
               LET w == WorkerId(c, i - 1) IN
               /\ call'.missing[i] = <<>> => w \notin DOMAIN violation_time'[c]
               /\ (call'.missing[i] # <<>> /\ w \notin DOMAIN violation_time[c]) =>
                     /\ w \in DOMAIN violation_time'[c]
                     /\ violation_time'[c][w] = t
                     /\ RecordsOf(call'.result, w) = {}
               /\ \A k \in RecordsOf(call'.result, w) :
                     call'.result[k].duration = 10 * (t - violation_time'[c][w])
    ]_vars

\* a worker whose window was deleted early by a compliant frame is
\* non-compliant again, its window was opened after time 0, and a record is
\* returned whose duration counts from that later start
C2_Witness ==
    /\ GearCallReturned(call)
    /\ \E k \in 1..Len(call.result) :
          LET w == call.result[k].worker_id
              vt == violation_time[call.camera_id]
          IN  /\ w \in reset_early
              /\ vt[w] > 0
              /\ call.result[k].duration = 10 * (call.current_time - vt[w])

\* C3: in a call where a worker is non-compliant, the call returns one record
\* for the worker when the clock reading is at least alert_threshold past the
\* window's start and none before; and a window that exists is kept, with
\* its start, by every call in which the worker is non-compliant.
C3_OnePerFrame ==
    /\ [](GearCallReturned(call) =>
            \A i \in 1..Len(call.missing) :
               LET w == WorkerId(call.camera_id, i - 1)
                   vt == violation_time[call.camera_id]
               IN  call.missing[i] # <<>> =>
                     /\ w \in DOMAIN vt
                     /\ Cardinality(RecordsOf(call.result, w)) =
                          (IF call.current_time >= vt[w] + alert_threshold THEN 1 ELSE 0))
    /\ [][GearCallReturned(call') =>
            \A i \in 1..Len(call'.missing) :
               LET c == call'.camera_id
                   w == WorkerId(c, i - 1)
               IN  (call'.missing[i] # <<>> /\ w \in DOMAIN violation_time[c]) =>
                     /\ w \in DOMAIN violation_time'[c]
                     /\ violation_time'[c][w] = violation_time[c][w]]_vars

\* the scenario's last frame: the window opened at t = 0 and never reset, the
\* worker is non-compliant at t = 5 and one record of 5.0 s is returned
C3_Witness ==
    /\ GearCallReturned(call)
    /\ call.current_time = 5
    /\ \E i \in 1..Len(call.missing) :
          LET w == WorkerId(call.camera_id, i - 1) IN
          /\ call.missing[i] # <<>>
          /\ w \notin reset_early
          /\ violation_time[call.camera_id][w] = 0
          /\ \E k \in RecordsOf(call.result, w) : call.result[k].duration = 50

\* ------------------------------------- two runs of the proximity tracker
OrderCameras == {1}
OrderFrames == {<<Weighted(BoxP, 6)>>, <<Weighted(BoxR, 6)>>,
                <<Weighted(BoxP, 6), Weighted(BoxR, 6)>>}
OrderContours == {<<ContourA>>, <<ContourA, ContourD>>, <<ContourD, ContourA>>}

OrderTick == Tick(MaxOrderClock) /\ UNCHANGED <<gearVars, proxVars, twinVars, camVars, pipeVars>>

NextProxOrder ==
    \/ OrderTick
    \/ ProximityDetectTwice(OrderCameras, OrderFrames, OrderContours)
    \/ ClearAllViolations

SpecProxOrder == InitProx /\ [][NextProxOrder]_vars

\* an alert without its screenshot reference
Unshot(r) == [worker_id |-> r.worker_id, machine_id |-> r.machine_id,
              distance |-> r.distance, timestamp |-> r.timestamp,
              camera_id |-> r.camera_id]

CamCallers == {1}

InitCam ==
    /\ InitDetectors
    /\ hog = TRUE
    /\ \E opened \in {"opened", "closed", "error"} :
        /\ src = [o \in Sources |-> IF o = 1 THEN [IPCamera(opened, 1) EXCEPT !.name = 1]
                                              ELSE Unbuilt]
        /\ heap = HeapAfterConnect([f \in FrameIds |-> "free"], opened, 1)
    /\ held = <<>>
    /\ cameras = DictSet(EmptyDict, 1, 1)
    /\ mgr = [t \in Callers |-> Idle]

NextCam ==
    \/ \E o \in Sources :
        \/ UpdateFrameTest(o)
        \/ UpdateFrameEnter(o)
        \/ UpdateFrameRead(o)
        \/ UpdateFrameLost(o)
        \/ UpdateFrameBackoff(o)
        \/ UpdateFrameReopen(o)
        \/ UpdateFrameBreak(o)
        \/ UpdateFramePause(o)
        \/ FallbackTest(o)
        \/ FallbackTick(o)
        \/ get_frame(o)
    \/ CallerDraws
    \/ CallerDrops
    \/ \E t \in CamCallers :
        \/ RemoveCameraCheck(t, 1)
        \/ RemoveCameraRelease(t)
        \/ RemoveCameraCap(t)
        \/ RemoveCameraDel(t)

SpecCam == InitCam /\ [][NextCam]_vars

\* the source of object o could not be opened: connect() built no fetch loop
NeverOpened(o) == src[o].built /\ src[o].update_frame = "absent"

\* the pictures that are placeholders
Placeholders == {"offline", "noframe"}

\* C8: every frame get_frame has returned for a camera whose source could
\* not be opened is an array (not null) showing the OFFLINE picture or the
\* "No Frame Available" picture, and the frame such a camera publishes is
\* never a real one; before the first fallback round, after it and after
\* release() alike.
C8_AlwaysPlaceholder ==
    \A o \in Sources :
        NeverOpened(o) =>
            /\ \A k \in 1..Len(held) :
                   held[k].from = o => held[k].id # NoFrame /\ held[k].kind \in Placeholders
            /\ src[o].last_frame # NoFrame => heap[src[o].last_frame] = "offline"

\* a camera that never opened has answered before its first fallback round
\* ("noframe") and again, after release() and the end of its loop ("offline")
C8_Witness ==
    \E o \in Sources :
        /\ NeverOpened(o)
        /\ src[o].update_fallback = "done"
        /\ Len(held) = 2
        /\ held[1].from = o /\ held[1].kind = "noframe" /\ ~held[1].after_release
        /\ held[2].from = o /\ held[2].kind = "offline" /\ held[2].after_release

\* C9: a frame returned by get_frame is an array of its own: it is not the
\* published last_frame, not a fallback frame and not the array of another
\* call, so that drawing into it changes none of them, whether the camera is
\* Live or Degraded.
C9_IndependentCopy ==
    /\ \A k \in 1..Len(held) :
           /\ held[k].id # NoFrame
           /\ heap[held[k].id] = IF held[k].mutated THEN "drawn" ELSE held[k].kind
           /\ \A j \in 1..Len(held) : j # k => held[j].id # held[k].id
    /\ \A o \in Sources :
           /\ src[o].last_frame # NoFrame => heap[src[o].last_frame] \in {"live", "offline"}
           /\ \A i \in 1..Len(src[o].fallback_frames) :
                  heap[src[o].fallback_frames[i]] = "offline"

\* the caller has drawn into a frame taken while Live and holds, untouched,
\* a frame taken after the same camera went Degraded
C9_Witness ==
    /\ Len(held) = 2
    /\ held[1].kind = "live" /\ held[1].mutated
    /\ held[2].kind = "offline" /\ ~held[2].mutated
    /\ src[held[2].from].use_fallback
    /\ heap[src[held[2].from].last_frame] = "offline"

\* C10: once remove_camera has called release() on a camera whose fetch loop
\* is between a failed read and the result of its reopen, is_running stays
\* false and no thread is started for that camera.  (release() takes no lock:
\* RemoveCameraRelease and RemoveCameraCap have no guard on it.)
C10_NoResidualLoop ==
    \A o \in Sources :
        src[o].released = "mid_reconnect" => ~src[o].is_running /\ ~src[o].started_after

\* release() has been called on object o and has returned
Released(o) ==
    /\ src[o].released # "no"
    /\ \A t \in Callers : ~(mgr[t].pc = "cap" /\ mgr[t].o = o)

\* both loops of object o have ended, or were never started
LoopsEnded(o) ==
    /\ src[o].update_frame \in {"absent", "done"}
    /\ src[o].update_fallback \in {"absent", "done"}

\* C11: once release() has returned and the loops of the source have ended,
\* the source holds no open capture: no VideoCapture opened by the fetch loop
\* after release() is left open.
C11_NoOpenHandleAfterRelease ==
    \A o \in Sources : Released(o) /\ LoopsEnded(o) => src[o].cap # "open"

\* C17: the fetch loop does not hold the frame lock while it is inside
\* cap.read().
C17_NoLockWhileReading ==
    \A o \in Sources : src[o].update_frame = "read" => src[o].lock # "update_frame"

\* C18: between the failed read and the result of the reopen (release of the
\* capture, the 1 s sleep, the reopen) the fetch loop holds no lock.
C18_NoLockDuringBackoff ==
    \A o \in Sources :
        src[o].update_frame \in {"lost", "backoff", "reopen"} => src[o].lock = "free"

\* C19: a source whose fallback loop has been started is Degraded for good:
\* use_fallback is set and stays set, no fetch loop runs or is started (the
\* one that started the fallback loop only leaves through its break), and
\* every frame published from then on is the OFFLINE picture.
C19_DegradedPermanent ==
    /\ [](\A o \in Sources :
            src[o].update_fallback # "absent" =>
                src[o].use_fallback /\ src[o].update_frame \in {"absent", "leave", "done"})
    /\ [][\A o \in Sources :
            src[o].use_fallback =>
                /\ src'[o].use_fallback
                /\ \/ src'[o].update_frame = src[o].update_frame
                   \/ src[o].update_frame = "leave" /\ src'[o].update_frame = "done"
                /\ \/ src'[o].last_frame = src[o].last_frame
                   \/ heap'[src'[o].last_frame] = "offline"]_vars

\* a camera that was Live, failed its reopen and has since published the
\* OFFLINE picture over its last real frame
C19_Witness ==
    \E o \in Sources :
        /\ src[o].use_fallback
        /\ src[o].update_frame = "done"
        /\ src[o].cap = "unopened"
        /\ src[o].last_frame # NoFrame
        /\ heap[src[o].last_frame] = "offline"
        /\ \E k \in 1..Len(held) : held[k].from = o /\ held[k].kind = "live"

\* ------------------------------------------------------ the registry
\* the two loops of the IPCamera objects
LoopStep(o) ==
    \/ UpdateFrameTest(o)
    \/ UpdateFrameEnter(o)
    \/ UpdateFrameRead(o)
    \/ UpdateFrameLost(o)
    \/ UpdateFrameBackoff(o)
    \/ UpdateFrameReopen(o)
    \/ UpdateFrameBreak(o)
    \/ UpdateFramePause(o)
    \/ FallbackTest(o)
    \/ FallbackTick(o)

\* one step of thread t inside add_camera or remove_camera, on an id of ids
RegistryStep(t, ids) ==
    \/ \E camera_id \in ids :
        \/ AddCameraBuild(t, camera_id)
        \/ RemoveCameraCheck(t, camera_id)
    \/ AddCameraInstall(t)
    \/ RemoveCameraRelease(t)
    \/ RemoveCameraCap(t)
    \/ RemoveCameraDel(t)

\* CameraManager() has built one camera; one thread calls add_camera and
\* remove_camera, one call after the other.  Of the loops, those of the
\* Degraded cameras are scheduled here; the fetch loop and its interleavings
\* with release() are those of SpecCam and SpecRelease.
MgrCallers == {1}

NextMgr ==
    \/ \E o \in Sources : FallbackTest(o) \/ FallbackTick(o)
    \/ \E t \in MgrCallers : RegistryStep(t, CameraIds)

SpecMgr == InitCam /\ [][NextMgr]_vars

\* two threads call remove_camera for the same camera at the same time,
\* while its loops run
NextRelease ==
    \/ \E o \in Sources : LoopStep(o)
    \/ \E t \in Callers :
        \/ RemoveCameraCheck(t, 1)
        \/ RemoveCameraRelease(t)
        \/ RemoveCameraCap(t)
        \/ RemoveCameraDel(t)

SpecRelease == InitCam /\ [][NextRelease]_vars

\* thread t executes a statement of a release() call made on an object
\* that an earlier release() call has already released
SecondReleaseStep(t) ==
    \/ mgr[t].pc = "lookup" /\ mgr'[t].pc = "cap" /\ mgr'[t].again
    \/ mgr[t].pc = "cap" /\ mgr'[t].pc = "del" /\ mgr[t].again

\* C12: a second release() on a released source raises nothing and leaves the
\* source as a release() leaves it: is_running false, no open capture, every
\* other field untouched; on a source that still is as the first call left
\* it, it changes nothing at all.
C12_ReleaseIdempotent ==
    [][\A t \in Callers :
          SecondReleaseStep(t) =>
              LET o == mgr'[t].o
              IN  /\ mgr'[t].pc = "cap" => ~src'[o].is_running
                  /\ mgr'[t].pc = "del" => src'[o].cap # "open"
                  /\ [src'[o] EXCEPT !.is_running = src[o].is_running, !.cap = src[o].cap]
                         = src[o]
                  /\ ~src[o].is_running /\ src[o].cap \in {"released", "None"} => src' = src]_vars

\* a second release() has run to its end on a released camera
C12_Witness ==
    \E t \in Callers :
        /\ mgr[t].pc = "del"
        /\ mgr[t].again
        /\ ~src[mgr[t].o].is_running
        /\ src[mgr[t].o].cap = "released"

\* the objects built for camera id c on which release() has not been called
Unreleased(c) == {o \in Sources : src[o].built /\ src[o].name = c /\ src[o].released = "no"}

\* C13: whenever no add_camera call is between building its object and
\* installing it, every camera id has at most one source that has not been
\* released.
C13_OneSourcePerId ==
    (\A t \in Callers : mgr[t].pc # "install") =>
        \A c \in CameraIds : Cardinality(Unreleased(c)) <= 1

\* C14: remove_camera on an absent id returns False and changes neither the
\* registry nor any source; on a present id it calls release() on the source
\* registered under that id, deletes that id only and returns True.
C14_RemoveCamera ==
    [][\A t \in MgrCallers :
          /\ mgr[t].pc = "idle" /\ mgr'[t].pc = "idle" /\ mgr'[t] # mgr[t] =>
                 /\ mgr'[t].op = "remove_camera"
                 /\ mgr'[t].ret = "False"
                 /\ mgr'[t].camera_id \notin DOMAIN cameras
                 /\ cameras' = cameras /\ src' = src
          /\ mgr[t].pc = "idle" /\ mgr'[t].pc = "lookup" =>
                 mgr'[t].camera_id \in DOMAIN cameras /\ cameras' = cameras /\ src' = src
          /\ mgr[t].pc = "lookup" /\ mgr'[t] # mgr[t] =>
                 /\ mgr'[t].pc = "cap"
                 /\ mgr'[t].o = cameras[mgr[t].camera_id]
                 /\ ~src'[mgr'[t].o].is_running
                 /\ cameras' = cameras
          /\ mgr[t].pc = "cap" /\ mgr'[t] # mgr[t] =>
                 /\ mgr'[t].pc = "del"
                 /\ src'[mgr[t].o].cap # "open"
                 /\ cameras' = cameras
          /\ mgr[t].pc = "del" /\ mgr'[t] # mgr[t] =>
                 /\ mgr'[t].pc = "idle" /\ mgr'[t].ret = "True"
                 /\ mgr[t].camera_id \in DOMAIN cameras
                 /\ DOMAIN cameras' = DOMAIN cameras \ {mgr[t].camera_id}
                 /\ \A c \in DOMAIN cameras' : cameras'[c] = cameras[c]
                 /\ src' = src]_vars

\* remove_camera(1) has returned True with camera 2 registered, and camera 2
\* is still registered, its source not released
C14_Witness ==
    \E t \in MgrCallers :
        /\ mgr[t] = [Idle EXCEPT !.op = "remove_camera", !.camera_id = 1, !.ret = "True"]
        /\ DOMAIN cameras = {2}
        /\ src[cameras[2]].released = "no"
        /\ \E o \in Sources : src[o].name = 1 /\ src[o].released # "no"

\* C15: no add_camera or remove_camera call raises, and of two remove_camera
\* calls on the one camera that was ever registered at most one returns True.
C15_RegistrySerialized ==
    /\ \A t \in Callers : mgr[t].ret # "KeyError"
    /\ ~(\A t \in Callers : mgr[t].op = "remove_camera" /\ mgr[t].ret = "True")

\* C16: a camera whose source did not open, or whose open raised, is
\* Degraded (use_fallback set, fallback loop started); add_camera returns True
\* for it and registers it under its id.
C16_OpenFailureDegrades ==
    /\ [](\A o \in Sources :
            NeverOpened(o) => src[o].use_fallback /\ src[o].update_fallback # "absent")
    /\ [][\A t \in MgrCallers :
            mgr[t].pc = "install" /\ mgr'[t] # mgr[t] =>
                /\ mgr'[t].pc = "idle" /\ mgr'[t].ret = "True"
                /\ mgr'[t].camera_id \in DOMAIN cameras'
                /\ cameras'[mgr'[t].camera_id] = mgr[t].o]_vars

\* add_camera(2) has returned True for a camera whose VideoCapture raised
C16_Witness ==
    \E t \in MgrCallers :
        /\ mgr[t] = [Idle EXCEPT !.op = "add_camera", !.camera_id = 2, !.ret = "True"]
        /\ 2 \in DOMAIN cameras
        /\ NeverOpened(cameras[2])
        /\ src[cameras[2]].cap = "None"
        /\ src[cameras[2]].use_fallback

\* ------------------------------------------- a stream whose reads fail
\* a camera that opened and is never released; from then on every
\* cap.read() returns (False, None) or raises, while the reopen may succeed
\* or not.  Both loops are threads the interpreter keeps scheduling.
FailingRead(o) == UpdateFrameReadOf(o, ReadOutcomes(src[o].cap) \ {"frame"})

FailingFetchStep(o) ==
    \/ UpdateFrameTest(o)
    \/ UpdateFrameEnter(o)
    \/ FailingRead(o)
    \/ UpdateFrameLost(o)
    \/ UpdateFrameBackoff(o)
    \/ UpdateFrameReopen(o)
    \/ UpdateFrameBreak(o)
    \/ UpdateFramePause(o)

FallbackStep(o) == FallbackTest(o) \/ FallbackTick(o)

InitFailing == InitCam /\ src[1].update_frame = "test"

NextFailing ==
    \/ \E o \in Sources : FailingFetchStep(o) \/ FallbackStep(o) \/ get_frame(o)
    \/ CallerDraws
    \/ CallerDrops

SpecFailing ==
    /\ InitFailing
    /\ [][NextFailing]_vars
    /\ \A o \in Sources : WF_vars(FailingFetchStep(o)) /\ WF_vars(FallbackStep(o))

\* C20: a Live camera whose reads all fail, and which is not released,
\* eventually is Degraded.
C20_SettlesDegraded == <>(src[1].use_fallback)

\* ------------------------------------------------- the per-camera pipeline
\* CameraManager() has built camera 1, which opened.  Clients request the
\* feed of camera 1 or of the unknown camera 2; every request is served by
\* its own thread.  The camera's own loops are those of SpecCam.
PipeCameraIds == {1, 2}

InitPipe == InitCam /\ src[1].cap = "open"

PipeTick == Tick(MaxPipeClock) /\ UNCHANGED <<gearVars, proxVars, twinVars, camVars, pipeVars>>

NextPipe ==
    \/ PipeTick
    \/ \E r \in Requests :
        \/ \E camera_id \in PipeCameraIds : VideoFeed(r, camera_id)
        \/ PipeStep(r)

SpecPipe == InitPipe /\ [][NextPipe]_vars

\* C21: no generate_frames loop is ended by an exception of a detector call:
\* when safety_detector.detect or proximity_detector.detect raises for a
\* frame, the loop goes on with the next frame.
C21_DetectorFailureSkipsFrame ==
    \A r \in Requests :
        pipe[r].pc = "raised" =>
            pipe[r].error \notin {"safety_detector.detect", "proximity_detector.detect"}

\* C22: no generate_frames loop is ended by a failure of the Alert Sink:
\* when socketio.emit or db.add_violation raises, the loop keeps running.
C22_SinkFailureKeepsLoop ==
    \A r \in Requests :
        pipe[r].pc = "raised" => pipe[r].error \notin {"socketio.emit", "db.add_violation"}

\* request r is inside a detect call: past the vision calls, before the
\* tracker state of the frame is written
InDetect(r) == pipe[r].pc \in {"safety_track", "proximity_track"}

\* C26: for each camera id, at most one thread at a time is executing
\* SafetyGearDetector.detect or ProximityDetector.detect.
C26_OneLoopPerCamera ==
    \A r1, r2 \in Requests :
        (InDetect(r1) /\ InDetect(r2) /\ pipe[r1].camera_id = pipe[r2].camera_id) => r1 = r2

\* C28: every row of the violations table has kind safety_gear or proximity.
C28_StoredKind ==
    \A k \in 1..Len(db) : db[k].violation_type \in {"safety_gear", "proximity"}

\* ------------------------------------------- screenshots that fail
\* both detectors are called on the frames of camera 1; cv2.imwrite may
\* raise for any record
ShotBox == [weight |-> 6, roi |-> [size |-> 1, bright |-> 9, vest |-> 4]]
ShotGearFrames == {<<ShotBox>>, <<ShotBox, ShotBox>>}
ShotProxFrames == {<<Weighted(BoxP, 6)>>}
ShotContours == {<<ContourA>>, <<ContourA, ContourA>>}

NextShots ==
    \/ GearTick
    \/ SafetyGearDetectIn({1}, ShotGearFrames)
    \/ ProximityDetect({1}, ShotProxFrames, ShotContours)

SpecShots == InitProx /\ [][NextShots]_vars

\* a record without its screenshot field
NoShot(r) == [k \in DOMAIN r \ {"screenshot"} |-> r[k]]
NoShots(records) == [k \in 1..Len(records) |-> NoShot(records[k])]

\* the step is the safety-gear detect call on boxes in which the screenshots
\* of the valid boxes of fail fail
GearCallWith(boxes, fail) ==
    SafetyGearCall(1, boxes, [i \in 1..Len(boxes) |-> i \notin fail])

\* what the same call does when every screenshot is written
GearCallShot(boxes) == SafetyDetect(1, boxes, [i \in 1..Len(boxes) |-> TRUE])

ProxCallWith(boxes, contours, fail) ==
    ProximityCall(1, boxes, contours, ShotsFailing(fail))

ProxCallShot(boxes, contours) ==
    ProximityDetectResult(alert_history, px_history, 1, boxes, contours, ShotsFailing({}))

C24_WindowOnlyWhileNonCompliant ==
    [][call'.op = "safety" /\ <<call, violation_time>>' # <<call, violation_time>> =>
          \A w \in DOMAIN violation_time'[call'.camera_id] :
              /\ w[3] + 1 <= Len(call'.missing)
              /\ call'.missing[w[3] + 1] # <<>>]_vars

\* ------------------------------------------------- trackers of two cameras
\* the detect calls of the loops of cameras 1 and 2 arrive in any order;
\* the worker of camera 2 never wears its gear, that of camera 1 may
PartCameras == {1, 2}
PartBare == [weight |-> 6, roi |-> [size |-> 1, bright |-> 9, vest |-> 4]]
PartGeared == [weight |-> 6, roi |-> [size |-> 1, bright |-> 10, vest |-> 5]]
PartGearFrames == {<<PartBare>>, <<PartGeared>>}
PartProxFrames == {<<Weighted(BoxP, 6)>>}
PartContours == {<<ContourA>>}

\* the detect calls; every screenshot is written
PartSafetyGearDetect(cams, frames) ==
    \E camera_id \in cams, boxes \in frames :
        /\ SafetyGearCall(camera_id, boxes, [i \in 1..Len(boxes) |-> TRUE])
        /\ UNCHANGED pipeVars

PartProximityDetect ==
    \E camera_id \in PartCameras, boxes \in PartProxFrames, contours \in PartContours :
        /\ ProximityCall(camera_id, boxes, contours, ShotsFailing({}))
        /\ UNCHANGED <<twinVars, pipeVars>>

NextPart ==
    \/ GearTick
    \/ PartSafetyGearDetect({1}, PartGearFrames)
    \/ PartSafetyGearDetect({2}, {<<PartBare>>})
    \/ PartProximityDetect

SpecPart == InitProx /\ [][NextPart]_vars

\* the records of camera d in a history, in order
OfCamera(history, d) == SelectSeq(history, LAMBDA r : r.camera_id = d)

\* what a safety-gear call for camera d on boxes would return and leave in
\* violation_time[d], when the detector's violation_time is vt_all
GearOutcome(vt_all, d, boxes) ==
    LET st == SafetyDetectOn(vt_all, <<>>, d, boxes, [i \in 1..Len(boxes) |-> TRUE])
    IN  <<st.vt, st.violations>>

\* what a proximity call for camera d would return and leave in
\* alert_history[d], when the detector's alert_history is ah
ProxOutcome(ah, d, boxes, contours) ==
    LET st == ProximityDetectResult(ah, <<>>, d, boxes, contours, ShotsFailing({}))
    IN  <<st.ah, st.alerts>>

\* C25: a detect call for camera c leaves the windows, the cooldown entries,
\* the machinery positions and the history records of every other camera d
\* as they were, and changes nothing in what a detect call for d returns and
\* writes: calls for different cameras commute, so that every interleaving
\* gives each camera the records of its own calls run alone.
C25_PartitionedByCamera ==
    [][call'.op \in {"safety", "proximity"} =>
          \A d \in PartCameras \ {call'.camera_id} :
              /\ violation_time'[d] = violation_time[d]
              /\ alert_history'[d] = alert_history[d]
              /\ (d \in DOMAIN machinery_positions' <=> d \in DOMAIN machinery_positions)
              /\ d \in DOMAIN machinery_positions =>
                     machinery_positions'[d] = machinery_positions[d]
              /\ OfCamera(sg_history', d) = OfCamera(sg_history, d)
              /\ OfCamera(px_history', d) = OfCamera(px_history, d)
              /\ \A boxes \in PartGearFrames :
                     GearOutcome(violation_time', d, boxes) = GearOutcome(violation_time, d, boxes)
              /\ \A boxes \in PartProxFrames, contours \in PartContours :
                     ProxOutcome(alert_history', d, boxes, contours)
                         = ProxOutcome(alert_history, d, boxes, contours)
      ]_vars

\* camera 2 is given a record for a window that was opened before the window
\* of camera 1, which compliance had deleted and which is open again, and
\* camera 1 has alerted
C25_Witness ==
    /\ call.op = "safety"
    /\ call.camera_id = 2
    /\ Len(call.result) = 1
    /\ WorkerId(1, 0) \in DOMAIN violation_time[1]
    /\ WorkerId(1, 0) \in reset_early
    /\ violation_time[1][WorkerId(1, 0)] > violation_time[2][WorkerId(2, 0)]
    /\ alert_history[1] # EmptyDict

\* ---------------------------------------------- pairs that are not close
\* the pairs (worker, machine) of the valid boxes of a frame and the
\* machinery found in it whose centres are at least proximity_threshold apart
FarPairs(boxes, machinery) ==
    LET valid == ValidBoxes(boxes)
    IN  {p \in (1..Len(valid)) \X (1..Len(machinery)) :
            SqDistance(Center(valid[p[1]]), Center(machinery[p[2]]))
                >= proximity_threshold * proximity_threshold}

\* the number of records of a key in a history
CountOf(history, camera_id, key) ==
    Cardinality({k \in 1..Len(history) :
                    history[k].camera_id = camera_id /\ RecordKey(history[k]) = key})

\* C27: a proximity detect call returns no alert for a pair that is not
\* closer than proximity_threshold, and leaves the pair's alert_history
\* entry (absent or not) and its records in violation_history as they were.
\* The machinery of the call's frame is what the call has stored in
\* machinery_positions; the workers are those of any frame of the feed.
C27_FarPairNoChange ==
    [][call'.op = "proximity" =>
          LET c == call'.camera_id IN
          \A boxes \in ProxFrames :
              \A p \in FarPairs(boxes, machinery_positions'[c]) :
                  LET key == PairKey(c, p)
                  IN  /\ AlertsOf(call'.result, key) = {}
                      /\ key \in DOMAIN alert_history'[c] <=> key \in DOMAIN alert_history[c]
                      /\ key \in DOMAIN alert_history[c] =>
                             alert_history'[c][key] = alert_history[c][key]
                      /\ CountOf(px_history', c, key) = CountOf(px_history, c, key)
      ]_vars

\* a frame with machine 0 at the threshold distance and machine 1 closer:
\* the call has alerted for machine 1 only, and the entry of machine 0, whose
\* cooldown has elapsed, is as it was
C27_Witness ==
    /\ call.op = "proximity"
    /\ call.close = {<<1, 2>>}
    /\ Len(call.result) = 1
    /\ call.result[1].machine_id = MachineId(1, 1)
    /\ PairKey(1, <<1, 1>>) \in DOMAIN alert_history[1]
    /\ call.current_time - alert_history[1][PairKey(1, <<1, 1>>)] >= alert_cooldown
    /\ Len(machinery_positions[1]) = 2
    /\ SqDistance(Center(BoxP), Center(machinery_positions[1][1]))
           = proximity_threshold * proximity_threshold

\* ------------------------------------------------- one loop per source
\* the loop is inside its while: it has been started and has neither ended
\* nor reached its break
InFetchLoop(o) == src[o].update_frame \notin {"absent", "leave", "done"}
InFallbackLoop(o) == src[o].update_fallback \notin {"absent", "done"}

\* C29: of the two loops of a source at most one is running at any time, a
\* frame is published by one loop only when the other is not running, and at
\* most one thread is ever started on each loop.
C29_OnePublishingLoop ==
    /\ [](\A o \in Sources :
            /\ ~(InFetchLoop(o) /\ InFallbackLoop(o))
            /\ src[o].frame_loops <= 1
            /\ src[o].fallback_loops <= 1)
    /\ [][\A o \in Sources :
            /\ (src[o].update_frame = "read" /\ src'[o].last_frame # src[o].last_frame)
                   => src[o].update_fallback = "absent"
            /\ (src[o].update_fallback = "tick" /\ src'[o].last_frame # src[o].last_frame)
                   => src[o].update_frame \in {"absent", "done"}]_vars

\* a source whose fetch loop has published, has failed its reopen and has
\* ended, and whose fallback loop has published since: one thread each
C29_Witness ==
    \E o \in Sources :
        /\ src[o].frame_loops = 1
        /\ src[o].fallback_loops = 1
        /\ src[o].update_frame = "done"
        /\ src[o].update_fallback = "test"
        /\ src[o].fallback_index = 0
        /\ src[o].last_frame # NoFrame
        /\ src[o].last_frame # src[o].fallback_frames[1]
        /\ heap[src[o].last_frame] = "offline"
        /\ \E k \in 1..Len(held) : held[k].from = o /\ held[k].kind = "live"

====
